---- MODULE Spec2Model ----
(***************************************************************************)
(* Model of the experiment bookkeeping of CVPR2020-FGVC7:                  *)
(*   utils/experiment_utils.py  ExperimentHelper                           *)
(*   train.py                   the epoch loop that drives it              *)
(* One run directory results/<experiment_name> is modelled, together with  *)
(* the process that runs train() on it.  Metric values are scaled to small *)
(* naturals; only their order matters to the code.                         *)
(***************************************************************************)
EXTENDS Integers, Sequences, FiniteSets, TLC

\* ------------------------------------------------------------------ bounds
MaxEpochs == 3
MaxFreq == 3
MaxLoss == 2
MaxRoc == 2

\* ------------------------------------------------------- value encodings
\* float('inf'): above every finite loss of the model
Inf == MaxLoss + 1
\* Python None (numeric fields of self.result, and freq: `if self.freq` is
\* false for None)
None == 0 - 1
NoFreq == 0
\* a checkpoint file that does not exist
NoFile == 0 - 1

ExperimentName == "x"

LossValues == 0..MaxLoss
RocValues == 0..MaxRoc
FreqValues == {NoFreq} \cup (1..MaxFreq)

\* train_loss, val_acc, train_acc and train_roc are only copied (to the
\* ledger, the telemetry sink and self.result) and never compared: each is
\* held at one value, distinct per column.
TrainLoss == 5
ValAcc == 6
TrainAcc == 7
TrainRoc == 8

\* the six scalars validate computes from the supplied predictions/targets
Metrics ==
  [val_loss : LossValues, train_loss : {TrainLoss}, val_acc : {ValAcc},
   train_acc : {TrainAcc}, val_roc : RocValues, train_roc : {TrainRoc}]

VARIABLES
  \* --- file system: results/<experiment_name>
  dir_exists,      \* the run directory exists
  csv_exists,      \* result.csv exists
  result_csv,      \* lines of result.csv
  weights_loss,    \* content of weights_loss.pth (a model state) or NoFile
  weights_roc,     \* content of weights_roc.pth  (a model state) or NoFile
  \* --- the process
  pc,              \* position of the process
  epochs,          \* config["epochs"] of the running process
  i,               \* epoch index of the loop
  model_state,     \* model.state_dict(): number of epochs trained so far
  collected,       \* train outputs were collected this epoch (train.py:167)
  tb,              \* scalars emitted through this process's tb_writer
  fault,           \* the exception that ended the process, or "none"
  \* --- ExperimentHelper fields
  best_val_loss,
  best_val_roc,
  result,
  freq,
  progress_loss,
  progress_roc,
  \* --- observation of the run
  workspace_state, \* outcome of the last construction
  overwrite_arg,   \* the overwrite argument of the constructor call
  wiped,           \* that call deleted ledger rows or checkpoint files
  resumed,         \* that call runs in a process started after a crash
  calls,           \* return values of the validate calls on this helper
  decisions,       \* <<progress_loss, progress_roc>> after each of them
  decided_at,      \* epoch index of the validate call that set the flags
  saved            \* files the last checkpoint step changed: <<loss?, roc?>>

fs == <<dir_exists, csv_exists, result_csv, weights_loss, weights_roc>>
proc == <<pc, epochs, i, model_state, collected, tb, fault>>
helper == <<best_val_loss, best_val_roc, result, freq, progress_loss, progress_roc>>
obs == <<workspace_state, overwrite_arg, wiped, resumed, calls, decisions, decided_at,
        saved>>
vars == <<fs, proc, helper, obs>>

\* --------------------------------------------------------------- helpers
Last(s) == s[Len(s)]

SeqMin(s, field, dflt) ==
  IF Len(s) = 0 THEN dflt
  ELSE LET S == {s[k][field] : k \in 1..Len(s)} \cup {dflt}
       IN CHOOSE m \in S : \A x \in S : m <= x

SeqMax(s, field, dflt) ==
  LET S == {s[k][field] : k \in 1..Len(s)} \cup {dflt}
  IN CHOOSE m \in S : \A x \in S : m >= x

\* ------------------------------------------------------------ result.csv
HeaderLine ==
  [kind |-> "header",
   cols |-> <<"epoch", "Loss ( Val )", "Loss ( Train )", "Accuracy ( Val )",
              "Accuracy ( Train )", "ROC ( Val )", "ROC ( Train )">>]

\* variant: the epoch column holds the 0-based loop index
DataFrame_zero_based(epoch, m) ==
  [kind |-> "row",
   cols |-> <<epoch, m.val_loss, m.train_loss, m.val_acc, m.train_acc,
              m.val_roc, m.train_roc>>]

\* pd.DataFrame([[epoch + 1, val_loss, train_loss, val_acc, train_acc,
\*                val_roc, train_roc]])
DataFrame(epoch, m) ==
  [kind |-> "row",
   cols |-> <<epoch + 1, m.val_loss, m.train_loss, m.val_acc, m.train_acc,
              m.val_roc, m.train_roc>>]

\* df.to_csv(result_path, header=[...], index=False): (re)writes the file
to_csv_write(df) == <<HeaderLine, df>>

\* variant: the append repeats the header (header=False forgotten)
to_csv_append_with_header(file, df) == file \o <<HeaderLine, df>>

\* variant: mode='a' is missing and the file is replaced by the new row
to_csv_append_replacing(file, df) == <<df>>

\* df.to_csv(result_path, mode='a', header=False, index=False)
to_csv_append(file, df) == Append(file, df)

\* variant: the isfile test is missing and the file is always rewritten
save_results_always_header(exists, file, df) == to_csv_write(df)

\* the file after validate's "saving results to csv" block
save_results(exists, file, df) ==
  IF ~exists THEN to_csv_write(df) ELSE to_csv_append(file, df)

\* ------------------------------------------------------- ExperimentHelper
\* variant: the 0-based index is tested, not the 1-based epoch number
should_trigger_zero_based(f, e) ==
  IF f # NoFreq THEN e % f = 0 ELSE TRUE

should_trigger(f, e) ==
  IF f # NoFreq THEN (e + 1) % f = 0 ELSE TRUE

\* variant: both objectives must improve
is_progress_both(pl, pr) == pl /\ pr

is_progress(pl, pr) == pl \/ pr

\* the two torch.save calls of save_checkpoint: new content of each file
save_checkpoint_loss(pl, pr, state_dict, old) ==
  IF pl THEN state_dict ELSE old

\* variant: weights_roc.pth is written under the loss flag
save_checkpoint_roc_on_loss(pl, pr, state_dict, old) ==
  IF pl THEN state_dict ELSE old

save_checkpoint_roc(pl, pr, state_dict, old) ==
  IF pr THEN state_dict ELSE old

\* variant: a tie on the loss is not progress
loss_progress_strict(best, val_loss) == best > val_loss

\* "storing loss for check"
loss_progress(best, val_loss) == best >= val_loss

\* variant: the comparison is turned around
roc_progress_flipped(best, val_roc) == best > val_roc

\* variant: a tie on the score is progress
roc_progress_with_ties(best, val_roc) == best <= val_roc

\* "storing roc for check"
roc_progress(best, val_roc) == best < val_roc

\* variant: the score block is nested in the loss block's improving branch
track_nested(best_loss, best_roc, val_loss, val_roc) ==
  LET pl == loss_progress(best_loss, val_loss)
      pr == pl /\ roc_progress(best_roc, val_roc)
  IN [best_val_loss |-> IF pl THEN val_loss ELSE best_loss,
      progress_loss |-> pl,
      best_val_roc  |-> IF pr THEN val_roc ELSE best_roc,
      progress_roc  |-> pr]

\* the two "storing ... for check" blocks of validate: the tracker fields
\* after a call that measured val_loss and val_roc
track(best_loss, best_roc, val_loss, val_roc) ==
  [best_val_loss |-> IF loss_progress(best_loss, val_loss)
                     THEN val_loss ELSE best_loss,
   progress_loss |-> loss_progress(best_loss, val_loss),
   best_val_roc  |-> IF roc_progress(best_roc, val_roc)
                     THEN val_roc ELSE best_roc,
   progress_roc  |-> roc_progress(best_roc, val_roc)]

\* variant: result["val_roc"] is not assigned
update_result_without_roc(old, m, epoch) ==
  [old EXCEPT !.best_val_loss = m.val_loss, !.val_acc = m.val_acc,
              !.train_loss = m.train_loss, !.train_acc = m.train_acc,
              !.train_roc = m.train_roc, !.epoch = epoch]

\* "update dict for publishing"
update_result(old, m, epoch) ==
  [old EXCEPT !.best_val_loss = m.val_loss, !.val_acc = m.val_acc,
              !.train_loss = m.train_loss, !.train_acc = m.train_acc,
              !.val_roc = m.val_roc, !.train_roc = m.train_roc,
              !.epoch = epoch]

\* the six add_scalar calls, in order
tb_events(m, epoch) ==
  << <<"Loss/Train", m.train_loss, epoch>>,
     <<"Loss/Validation", m.val_loss, epoch>>,
     <<"Accuracy/Train", m.train_acc, epoch>>,
     <<"Accuracy/Validation", m.val_acc, epoch>>,
     <<"ROC/Train", m.train_roc, epoch>>,
     <<"ROC/Validation", m.val_roc, epoch>> >>

\* the fields __init__ assigns to self.result
InitialResult(experiment_name) ==
  [config |-> experiment_name, best_val_loss |-> Inf, val_acc |-> None,
   train_loss |-> None, train_acc |-> None, val_roc |-> None,
   train_roc |-> None, epoch |-> None]

\* ------------------------------------------------------------------ Init
Init ==
  /\ dir_exists = FALSE
  /\ csv_exists = FALSE
  /\ result_csv = <<>>
  /\ weights_loss = NoFile
  /\ weights_roc = NoFile
  /\ pc = "idle"
  /\ epochs = 0
  /\ i = 0
  /\ model_state = 0
  /\ collected = FALSE
  /\ tb = <<>>
  /\ fault = "none"
  /\ best_val_loss = Inf
  /\ best_val_roc = 0
  /\ result = InitialResult(ExperimentName)
  /\ freq = NoFreq
  /\ progress_loss = FALSE
  /\ progress_roc = FALSE
  /\ workspace_state = "None"
  /\ overwrite_arg = FALSE
  /\ wiped = FALSE
  /\ resumed = FALSE
  /\ calls = <<>>
  /\ decisions = <<>>
  /\ decided_at = None
  /\ saved = <<FALSE, FALSE>>

\* --------------------------------------------------------------- actions
\* the files of a run directory that has just been made
EmptyDir ==
  [csv_exists |-> FALSE, result_csv |-> <<>>, weights_loss |-> NoFile,
   weights_roc |-> NoFile]

\* variant: exit() is missing and the existing directory is replaced
prepare_without_exit(exists, overwrite, files) ==
  IF ~exists
  THEN [outcome |-> "Fresh", files |-> EmptyDir]
  ELSE [outcome |-> "Overwritten", files |-> EmptyDir]

\* variant: rmtree is missing and the existing directory is reused
prepare_without_rmtree(exists, overwrite, files) ==
  IF ~exists
  THEN [outcome |-> "Fresh", files |-> EmptyDir]
  ELSE IF overwrite
       THEN [outcome |-> "Overwritten", files |-> files]
       ELSE [outcome |-> "Blocked", files |-> files]

\* __init__, lines 20-31: the outcome for the run directory and its files
prepare(exists, overwrite, files) ==
  IF ~exists
  THEN [outcome |-> "Fresh", files |-> EmptyDir]            \* makedirs
  ELSE IF overwrite
       THEN [outcome |-> "Overwritten", files |-> EmptyDir] \* rmtree, makedirs
       ELSE [outcome |-> "Blocked", files |-> files]        \* exit()

\* train.py:19-38: a process starts on the run name (fresh SummaryWriter)
\* and runs ExperimentHelper.__init__(experiment_name, f, tb_writer, overwrite)
Construct(overwrite, f) ==
  LET p == prepare(dir_exists, overwrite,
                   [csv_exists |-> csv_exists, result_csv |-> result_csv,
                    weights_loss |-> weights_loss, weights_roc |-> weights_roc])
      blocked == p.outcome = "Blocked"
  IN
  /\ pc \in {"idle", "done", "exited", "crashed"}
  /\ fault' = "none"
  /\ workspace_state' = p.outcome
  /\ overwrite_arg' = overwrite
  /\ dir_exists' = TRUE
  /\ csv_exists' = p.files.csv_exists
  /\ result_csv' = p.files.result_csv
  /\ weights_loss' = p.files.weights_loss
  /\ weights_roc' = p.files.weights_roc
  /\ wiped' = /\ ~blocked
              /\ (csv_exists \/ weights_loss # NoFile \/ weights_roc # NoFile)
  /\ resumed' = (pc = "crashed")
  /\ i' = 0
  /\ model_state' = 0
  /\ collected' = FALSE
  /\ tb' = <<>>
  /\ best_val_loss' = Inf
  /\ best_val_roc' = 0
  /\ result' = InitialResult(ExperimentName)
  /\ progress_loss' = FALSE
  /\ progress_roc' = FALSE
  /\ calls' = <<>>
  /\ decisions' = <<>>
  /\ decided_at' = None
  /\ saved' = <<FALSE, FALSE>>
  \* after exit() there is no helper and no loop
  /\ freq' = IF blocked THEN NoFreq ELSE f
  /\ epochs' = 0
  /\ pc' = IF blocked THEN "exited" ELSE "setup"

\* train.py:40-127: datasets, model, optimiser, loss function; the loop is
\* entered with E = config["epochs"]
Setup(E) ==
  /\ pc = "setup"
  /\ epochs' = E
  /\ pc' = IF E = 0 THEN "done" ELSE "train"
  \* the constructor has returned: its argument and what it did are past
  /\ overwrite_arg' = FALSE
  /\ wiped' = FALSE
  /\ resumed' = FALSE
  /\ UNCHANGED <<fs, i, model_state, collected, tb, fault, helper,
                 workspace_state,
                 calls, decisions, decided_at, saved>>

\* variant: the workspace is prepared (rmtree, makedirs) in every epoch
TrainEpoch_prepares_workspace ==
  /\ pc = "train"
  /\ model_state' = model_state + 1
  /\ collected' = should_trigger(freq, i)
  /\ pc' = "trigger"
  /\ dir_exists' = TRUE
  /\ csv_exists' = EmptyDir.csv_exists
  /\ result_csv' = EmptyDir.result_csv
  /\ weights_loss' = EmptyDir.weights_loss
  /\ weights_roc' = EmptyDir.weights_roc
  /\ UNCHANGED <<epochs, i, tb, fault, helper, obs>>

\* train.py:129-175: one epoch of optimiser steps; outputs are collected
\* when should_trigger(i)
TrainEpoch ==
  /\ pc = "train"
  /\ model_state' = model_state + 1
  /\ collected' = should_trigger(freq, i)
  /\ pc' = "trigger"
  /\ UNCHANGED <<fs, epochs, i, tb, fault, helper, obs>>

\* variant: the "save model weights" block is outside the should_trigger
\* block and runs in every epoch
Trigger_save_every_epoch ==
  /\ pc = "trigger"
  /\ pc' = IF should_trigger(freq, i) THEN "validate" ELSE "check"
  /\ UNCHANGED <<fs, epochs, i, model_state, collected, tb, fault, helper, obs>>

\* variant: the should_trigger test is missing and every epoch validates
Trigger_validate_every_epoch ==
  /\ pc = "trigger"
  /\ pc' = "validate"
  /\ UNCHANGED <<fs, epochs, i, model_state, collected, tb, fault, helper, obs>>

\* train.py:178: if experiment_helper.should_trigger(i)
Trigger ==
  /\ pc = "trigger"
  /\ IF should_trigger(freq, i)
     THEN /\ pc' = "validate"
          /\ UNCHANGED i
     ELSE /\ i' = i + 1
          /\ pc' = IF i + 1 < epochs THEN "train" ELSE "done"
  /\ UNCHANGED <<fs, epochs, model_state, collected, tb, fault, helper, obs>>

\* ExperimentHelper.validate(..., epoch = i)
Validate ==
  /\ pc = "validate"
  /\ \E m \in Metrics :
       LET t == track(best_val_loss, best_val_roc, m.val_loss, m.val_roc)
       IN /\ result_csv' = save_results(csv_exists, result_csv, DataFrame(i, m))
          /\ csv_exists' = TRUE
          /\ tb' = tb \o tb_events(m, i)
          /\ best_val_loss' = t.best_val_loss
          /\ progress_loss' = t.progress_loss
          /\ result' = IF t.progress_loss
                       THEN update_result(result, m, i) ELSE result
          /\ best_val_roc' = t.best_val_roc
          /\ progress_roc' = t.progress_roc
          /\ calls' = Append(calls, m)
          /\ decisions' = Append(decisions, <<progress_loss', progress_roc'>>)
  /\ decided_at' = i
  /\ pc' = "check"
  /\ UNCHANGED <<dir_exists, weights_loss, weights_roc, epochs, i,
                 model_state, collected, fault, freq, workspace_state,
                 overwrite_arg, wiped, resumed, saved>>

\* variant: the exception is swallowed, the failed metrics count as 0 and
\* validate carries on
ValidateMetricFails_default_value ==
  /\ pc = "validate"
  /\ fault' = "metric"
  /\ LET m == [val_loss |-> 0, train_loss |-> 0, val_acc |-> 0,
               train_acc |-> 0, val_roc |-> 0, train_roc |-> 0]
         t == track(best_val_loss, best_val_roc, m.val_loss, m.val_roc)
     IN /\ result_csv' = save_results(csv_exists, result_csv, DataFrame(i, m))
        /\ csv_exists' = TRUE
        /\ tb' = tb \o tb_events(m, i)
        /\ best_val_loss' = t.best_val_loss
        /\ progress_loss' = t.progress_loss
        /\ result' = IF t.progress_loss
                     THEN update_result(result, m, i) ELSE result
        /\ best_val_roc' = t.best_val_roc
        /\ progress_roc' = t.progress_roc
        /\ calls' = Append(calls, m)
        /\ decisions' = Append(decisions, <<progress_loss', progress_roc'>>)
  /\ decided_at' = i
  /\ pc' = "check"
  /\ UNCHANGED <<dir_exists, weights_loss, weights_roc, epochs, i,
                 model_state, collected, freq, workspace_state,
                 overwrite_arg, wiped, resumed, saved>>

\* validate, lines 73-95: the loss function or a metric function raises; the
\* exception leaves validate and train(), and the process ends
ValidateMetricFails ==
  /\ pc = "validate"
  /\ fault' = "metric"
  /\ pc' = "crashed"
  /\ UNCHANGED <<fs, epochs, i, model_state, collected, tb, helper, obs>>

\* variant: the tracker blocks come before the csv block, so the trackers
\* are already updated when add_scalar raises
ValidateTelemetryFails_tracker_first ==
  /\ pc = "validate"
  /\ \E m \in Metrics :
       LET t == track(best_val_loss, best_val_roc, m.val_loss, m.val_roc)
       IN /\ result_csv' = save_results(csv_exists, result_csv, DataFrame(i, m))
          /\ best_val_loss' = t.best_val_loss
          /\ progress_loss' = t.progress_loss
          /\ result' = IF t.progress_loss
                       THEN update_result(result, m, i) ELSE result
          /\ best_val_roc' = t.best_val_roc
          /\ progress_roc' = t.progress_roc
  /\ csv_exists' = TRUE
  /\ fault' = "telemetry"
  /\ pc' = "crashed"
  /\ UNCHANGED <<dir_exists, weights_loss, weights_roc, epochs, i,
                 model_state, collected, tb, freq, obs>>

\* validate, lines 73-116: the metrics are computed and the row is written,
\* then the first tb_writer.add_scalar raises; the exception leaves validate
\* and train(), and the process ends
ValidateTelemetryFails ==
  /\ pc = "validate"
  /\ \E m \in Metrics :
       result_csv' = save_results(csv_exists, result_csv, DataFrame(i, m))
  /\ csv_exists' = TRUE
  /\ fault' = "telemetry"
  /\ pc' = "crashed"
  /\ UNCHANGED <<dir_exists, weights_loss, weights_roc, epochs, i,
                 model_state, collected, tb, helper, obs>>

\* train.py:209-213: if is_progress(): save_checkpoint(model.state_dict())
Checkpoint ==
  /\ pc = "check"
  /\ IF is_progress(progress_loss, progress_roc)
     THEN /\ weights_loss' = save_checkpoint_loss(progress_loss, progress_roc,
                                                  model_state, weights_loss)
          /\ weights_roc' = save_checkpoint_roc(progress_loss, progress_roc,
                                                model_state, weights_roc)
     ELSE /\ UNCHANGED <<weights_loss, weights_roc>>
  /\ saved' = <<weights_loss' # weights_loss, weights_roc' # weights_roc>>
  /\ i' = i + 1
  /\ pc' = IF i + 1 < epochs THEN "train" ELSE "done"
  /\ UNCHANGED <<dir_exists, csv_exists, result_csv, epochs, model_state,
                 collected, tb, fault, helper, workspace_state, overwrite_arg,
                 wiped, resumed,
                 calls, decisions, decided_at>>

Next ==
  \/ \E overwrite \in BOOLEAN, f \in FreqValues : Construct(overwrite, f)
  \/ \E E \in 0..MaxEpochs : Setup(E)
  \/ TrainEpoch
  \/ Trigger
  \/ Validate
  \/ ValidateMetricFails
  \/ ValidateTelemetryFails
  \/ Checkpoint

Spec == Init /\ [][Next]_vars

TypeOK ==
  /\ dir_exists \in BOOLEAN
  /\ csv_exists \in BOOLEAN
  /\ weights_loss \in {NoFile} \cup (1..MaxEpochs)
  /\ weights_roc \in {NoFile} \cup (1..MaxEpochs)
  /\ pc \in {"idle", "setup", "train", "trigger", "validate", "check", "done",
             "exited", "crashed"}
  /\ fault \in {"none", "metric", "telemetry"}
  /\ epochs \in 0..MaxEpochs
  /\ i \in 0..MaxEpochs
  /\ best_val_loss \in LossValues \cup {Inf}
  /\ best_val_roc \in RocValues
  /\ freq \in FreqValues
  /\ workspace_state \in {"None", "Fresh", "Overwritten", "Blocked"}
  /\ overwrite_arg \in BOOLEAN
  /\ wiped \in BOOLEAN
  /\ resumed \in BOOLEAN

\* ------------------------------------------------------------ properties
\* the run's helper exists (construction did not exit)
HelperAlive == pc \in {"setup", "train", "trigger", "validate", "check", "done"}

\* a step taken by the running process, not the start of a new one
InRun == pc \in {"setup", "train", "trigger", "validate", "check"}

\* minimum val_loss of the calls before the k-th (+infinity when none)
MinLossBefore(k) == SeqMin(SubSeq(calls, 1, k - 1), "val_loss", Inf)

\* maximum of 0 and the val_roc of the calls before the k-th
MaxRocBefore(k) == SeqMax(SubSeq(calls, 1, k - 1), "val_roc", 0)

\* a step in which a validate call runs to its return statement
ValidateReturns == pc = "validate" /\ pc' = "check"

\* the metrics of the validate call a Validate step has just made
Measured == calls'[Len(calls')]

\* C1: the k-th validate call on a helper decides progress_loss iff its
\* val_loss is <= the minimum of the earlier val_loss values (always on the
\* first call) and progress_roc iff its val_roc is > the maximum of 0 and the
\* earlier val_roc values.  The scenario val_loss = [1.0, 0.9, 0.95],
\* val_score = [0.5, 0.4, 0.6] is any three calls of that order type
\* (l1 > l3 > l2, r2 < r1 < r3, r1 > 0): decisions (T,T), (T,F), (F,T).
C1_DecisionOfKthCall ==
  /\ Len(decisions) = Len(calls)
  /\ \A k \in 1..Len(calls) :
       /\ decisions[k][1] = (calls[k].val_loss <= MinLossBefore(k))
       /\ decisions[k][2] = (calls[k].val_roc > MaxRocBefore(k))
       /\ k = 1 => decisions[k][1]
  /\ Len(calls) > 0 => <<progress_loss, progress_roc>> = Last(decisions)
  /\ ( /\ Len(calls) >= 3
       /\ calls[1].val_loss > calls[3].val_loss
       /\ calls[3].val_loss > calls[2].val_loss
       /\ calls[1].val_roc > 0
       /\ calls[2].val_roc < calls[1].val_roc
       /\ calls[3].val_roc > calls[1].val_roc )
     => SubSeq(decisions, 1, 3) = << <<TRUE, TRUE>>, <<TRUE, FALSE>>, <<FALSE, TRUE>> >>

C1_Witness ==
  /\ pc = "check"
  /\ Len(calls) = 3
  /\ <<calls[1].val_loss, calls[2].val_loss, calls[3].val_loss>> = <<2, 0, 1>>
  /\ <<calls[1].val_roc, calls[2].val_roc, calls[3].val_roc>> = <<1, 0, 2>>
  /\ decisions = << <<TRUE, TRUE>>, <<TRUE, FALSE>>, <<FALSE, TRUE>> >>
  /\ ~progress_loss /\ progress_roc

\* epoch index e is the f-th, 2f-th, 3f-th ... epoch counted from 1
IsMultipleEpoch(f, e) == \E k \in 1..(e + 1) : e + 1 = k * f

\* C2: should_trigger(i) is true for every i when the frequency is unset and,
\* for a positive frequency f, exactly on the f-th, 2f-th, ... epoch (so never
\* on index 0 unless f = 1); the call changes no field of the helper and no
\* file.
C2_ShouldTrigger ==
  [][pc = "trigger" =>
       /\ (pc' = "validate") <=> (freq = NoFreq \/ IsMultipleEpoch(freq, i))
       /\ (i = 0 /\ freq \notin {NoFreq, 1}) => pc' # "validate"
       /\ UNCHANGED <<fs, helper, tb>>]_vars

C2_Witness ==
  /\ pc = "validate"
  /\ freq = 3
  /\ i = 2
  /\ Len(calls) = 0

\* C3: within a run best_val_loss never increases and best_val_roc never
\* decreases, best_val_loss is the minimum val_loss seen so far (+infinity
\* before the first call) and best_val_roc the maximum of 0 and the val_roc
\* seen so far.
C3_BestTracking ==
  /\ [](/\ best_val_loss = SeqMin(calls, "val_loss", Inf)
        /\ best_val_roc = SeqMax(calls, "val_roc", 0))
  /\ [][InRun => /\ best_val_loss' <= best_val_loss
                 /\ best_val_roc' >= best_val_roc]_vars

C3_Witness ==
  /\ Len(calls) >= 3
  /\ best_val_loss < calls[1].val_loss
  /\ best_val_loss < Last(calls).val_loss
  /\ best_val_roc > calls[1].val_roc
  /\ best_val_roc > Last(calls).val_roc

\* C4: the two objectives are decided independently.  A validate call whose
\* val_loss is worse than best_val_loss and whose val_roc is better than
\* best_val_roc gives progress_loss = false, progress_roc = true and changes
\* best_val_roc only; the mirrored call gives progress_loss = true,
\* progress_roc = false and changes best_val_loss only.
C4_Independent ==
  [][ValidateReturns =>
       /\ (Measured.val_loss > best_val_loss /\ Measured.val_roc > best_val_roc)
          => /\ ~progress_loss' /\ progress_roc'
             /\ best_val_loss' = best_val_loss
             /\ best_val_roc' = Measured.val_roc
       /\ (Measured.val_loss < best_val_loss /\ Measured.val_roc < best_val_roc)
          => /\ progress_loss' /\ ~progress_roc'
             /\ best_val_loss' = Measured.val_loss
             /\ best_val_roc' = best_val_roc]_vars

\* one run made both one-sided decisions: a call that improved the score
\* only and a call that improved the loss only
C4_Witness ==
  /\ pc = "check"
  /\ \E j, k \in 1..Len(decisions) :
       /\ decisions[j] = <<FALSE, TRUE>>
       /\ calls[j].val_loss > MinLossBefore(j)
       /\ decisions[k] = <<TRUE, FALSE>>
       /\ calls[k].val_roc < MaxRocBefore(k)

\* C5: a val_loss equal to best_val_loss counts as progress, a val_roc equal
\* to best_val_roc does not.
C5_TiePolicy ==
  [][ValidateReturns =>
       /\ Measured.val_loss = best_val_loss => progress_loss'
       /\ Measured.val_roc = best_val_roc => ~progress_roc']_vars

C5_Witness ==
  /\ pc = "check"
  /\ Len(calls) >= 2
  /\ Last(calls).val_loss = MinLossBefore(Len(calls))
  /\ Last(calls).val_roc = MaxRocBefore(Len(calls))
  /\ Last(calls).val_roc > 0
  /\ progress_loss /\ ~progress_roc

\* the ledger line validate writes for a call that measured m
RowOf(line, m) ==
  /\ line.kind = "row"
  /\ SubSeq(line.cols, 2, 7) = <<m.val_loss, m.train_loss, m.val_acc,
                                 m.train_acc, m.val_roc, m.train_roc>>

\* C6: from a fresh workspace, after N >= 1 validate calls result.csv holds
\* exactly one header row, as its first line, followed by exactly N data rows
\* in call order; no header is written a second time.
C6_HeaderOnce ==
  HelperAlive =>
    /\ csv_exists <=> Len(calls) >= 1
    /\ ~csv_exists => result_csv = <<>>
    /\ csv_exists =>
         /\ Len(result_csv) = Len(calls) + 1
         /\ result_csv[1].kind = "header"
         /\ \A k \in 1..Len(calls) : RowOf(result_csv[k + 1], calls[k])
         /\ Cardinality({k \in 1..Len(result_csv) :
                           result_csv[k].kind = "header"}) = 1

C6_Witness ==
  /\ HelperAlive
  /\ Len(calls) >= 3
  /\ Len(result_csv) = Len(calls) + 1
  /\ result_csv[1].kind = "header"
  /\ result_csv[Len(result_csv)].kind = "row"

\* a step that starts a process and runs the constructor
ConstructStep == pc \in {"idle", "done", "exited", "crashed"}

\* C7: preparing the workspace of a name whose directory does not exist gives
\* Fresh; preparing it again with overwrite = false gives RunAlreadyExists:
\* the process exits (no epoch, validate, ledger append or checkpoint write
\* follows in it) and the directory and its contents stay as they were.
C7_RunAlreadyExists ==
  /\ [][ConstructStep =>
          /\ ~dir_exists => workspace_state' = "Fresh"
          /\ (dir_exists /\ ~overwrite_arg') =>
               /\ workspace_state' = "Blocked"
               /\ pc' = "exited"
               /\ UNCHANGED fs]_vars
  /\ [](workspace_state # "None" => dir_exists)
  /\ [](pc = "exited" =>
          /\ workspace_state = "Blocked"
          /\ calls = <<>> /\ tb = <<>> /\ i = 0 /\ model_state = 0
          /\ ~ENABLED (\E E \in 0..MaxEpochs : Setup(E))
          /\ ~ENABLED TrainEpoch
          /\ ~ENABLED Trigger
          /\ ~ENABLED Validate
          /\ ~ENABLED Checkpoint)

\* the second preparation was refused and the first run's files are in place
C7_Witness ==
  /\ workspace_state = "Blocked"
  /\ pc = "exited"
  /\ ~overwrite_arg
  /\ Len(result_csv) >= 3
  /\ weights_loss # NoFile
  /\ weights_roc # NoFile

\* C8: construction with overwrite = true on an existing directory leaves an
\* existing, empty directory (no ledger, no checkpoint file), and the first
\* validate afterwards writes the header followed by one row.
C8_Overwrite ==
  /\ [][(ConstructStep /\ dir_exists /\ overwrite_arg') =>
          /\ workspace_state' = "Overwritten"
          /\ pc' = "setup"
          /\ dir_exists'
          /\ ~csv_exists' /\ result_csv' = <<>>
          /\ weights_loss' = NoFile /\ weights_roc' = NoFile]_vars
  /\ []((workspace_state = "Overwritten" /\ Len(calls) = 0) =>
          /\ weights_loss = NoFile /\ weights_roc = NoFile
          /\ fault # "telemetry" => ~csv_exists
          /\ fault = "telemetry" =>
               (Len(result_csv) = 2 /\ result_csv[1].kind = "header"))
  /\ []((workspace_state = "Overwritten" /\ Len(calls) = 1
         /\ fault # "telemetry") =>
          /\ csv_exists
          /\ Len(result_csv) = 2
          /\ result_csv[1].kind = "header"
          /\ RowOf(result_csv[2], calls[1]))

\* the constructor has just deleted the ledger and the checkpoints of an
\* earlier run of the name
C8_Witness ==
  /\ pc = "setup"
  /\ workspace_state = "Overwritten"
  /\ overwrite_arg
  /\ wiped
  /\ dir_exists
  /\ ~csv_exists

\* number of checkpoint files a step wrote
FilesWritten ==
  (IF weights_loss' # weights_loss THEN 1 ELSE 0)
  + (IF weights_roc' # weights_roc THEN 1 ELSE 0)

\* C9: the checkpoint step writes anything iff progress_loss or progress_roc
\* holds; it writes weights_loss.pth iff progress_loss and weights_roc.pth iff
\* progress_roc (0, 1 or 2 files), every written file holds the model state of
\* that call, and an existing file of the name is replaced.
C9_Checkpoint ==
  [][pc = "check" =>
       /\ weights_loss' = IF progress_loss THEN model_state ELSE weights_loss
       /\ weights_roc' = IF progress_roc THEN model_state ELSE weights_roc
       /\ (FilesWritten > 0) <=> (progress_loss \/ progress_roc)
       /\ FilesWritten = (IF progress_loss THEN 1 ELSE 0)
                         + (IF progress_roc THEN 1 ELSE 0)
       /\ model_state' = model_state]_vars

\* both files were replaced by the state of a later epoch
C9_Witness ==
  /\ saved = <<TRUE, TRUE>>
  /\ Len(decisions) >= 2
  /\ decisions[1] = <<TRUE, TRUE>>
  /\ Last(decisions) = <<TRUE, TRUE>>
  /\ weights_loss = model_state
  /\ weights_roc = model_state
  /\ model_state >= 2

Rows == {k \in 1..Len(result_csv) : result_csv[k].kind = "row"}

\* the process has (or had, when it crashed) a helper
HasHelper == pc \in {"setup", "train", "trigger", "validate", "check", "done",
                     "crashed"}

\* C11 as stated: the tracker is updated before the row is appended, so
\* whenever a ledger row exists the best tracker already reflects it.
C11_TrackerBeforeLedger ==
  HasHelper =>
    \A k \in Rows : /\ best_val_loss <= result_csv[k].cols[2]
                    /\ best_val_roc >= result_csv[k].cols[6]

\* C11, amended: validate computes the metrics, appends the row, emits the
\* scalars and only then updates the best tracker.  When the telemetry sink
\* raises, the row is in the ledger and the tracker is untouched; whenever
\* the tracker, the telemetry or a returned call reflects an epoch, the
\* ledger row of that epoch exists.
C11_LedgerBeforeTracker ==
  /\ [][(pc = "validate" /\ fault' = "telemetry") =>
          /\ Len(result_csv') = (IF csv_exists THEN Len(result_csv) + 1 ELSE 2)
          /\ UNCHANGED <<helper, tb, calls>>]_vars
  /\ [](HasHelper =>
          /\ best_val_loss # Inf =>
               \E k \in Rows : result_csv[k].cols[2] = best_val_loss
          /\ best_val_roc # 0 =>
               \E k \in Rows : result_csv[k].cols[6] = best_val_roc
          /\ result.epoch # None =>
               \E k \in Rows : result_csv[k].cols[1] = result.epoch + 1
          /\ \A e \in 1..Len(tb) :
               \E k \in Rows : result_csv[k].cols[1] = tb[e][3] + 1
          /\ Len(calls) <= Cardinality(Rows))

\* the sink raised in a later call: the row is written, no tracker has it
C11_Witness ==
  /\ pc = "crashed"
  /\ fault = "telemetry"
  /\ Len(calls) >= 1
  /\ Cardinality(Rows) = Len(calls) + 1
  /\ Last(result_csv).cols[2] < best_val_loss
  /\ Last(result_csv).cols[6] > best_val_roc

\* epoch index i is an epoch in which validation is due
Due == freq = NoFreq \/ IsMultipleEpoch(freq, i)

\* C12: in an epoch where should_trigger(i) is false the loop does no metric
\* work: validate is not called, the trackers, the ledger and the telemetry
\* are unchanged and no checkpoint file is written.
C12_SkippedEpoch ==
  [][(pc \in {"train", "trigger"} /\ ~Due) =>
       /\ UNCHANGED <<fs, helper, tb, calls, decisions>>
       /\ pc' \in {"trigger", "train", "done"}
       /\ ~collected']_vars

\* an epoch was skipped after an epoch that validated and saved
C12_Witness ==
  /\ pc = "done"
  /\ freq = 2
  /\ i = 3
  /\ model_state = 3
  /\ Len(calls) = 1
  /\ Cardinality(Rows) = 1
  /\ weights_loss = 2
  /\ Len(tb) = 6

\* C13: when the loss function or a metric function fails in validate, the
\* exception reaches the caller and ends the process: the trackers, the
\* flags and the result record are unchanged, no row is appended, no scalar
\* is emitted and no checkpoint is written for that epoch.
C13_MetricFailure ==
  /\ [][(pc = "validate" /\ fault' = "metric") =>
          /\ pc' = "crashed"
          /\ UNCHANGED <<fs, helper, tb, calls, decisions>>]_vars
  /\ [](fault = "metric" =>
          /\ pc = "crashed"
          /\ ~ENABLED Checkpoint
          /\ ~ENABLED Validate
          /\ ~ENABLED TrainEpoch)
  /\ [][(fault = "metric" /\ fault' = "metric") => UNCHANGED fs]_vars

\* a metric failed in a later epoch: ledger and checkpoints are those of the
\* earlier epochs
C13_Witness ==
  /\ fault = "metric"
  /\ pc = "crashed"
  /\ Len(calls) >= 1
  /\ Cardinality(Rows) = Len(calls)
  /\ Len(tb) = 6 * Len(calls)
  /\ weights_loss # NoFile
  /\ weights_loss < model_state

\* s is a prefix of t
IsPrefix(s, t) == Len(s) <= Len(t) /\ SubSeq(t, 1, Len(s)) = s

\* C14: within a run the ledger is append-only: every step of the running
\* process leaves the lines already written in place, and lines disappear
\* only when a construction with overwrite = true resets the workspace.
C14_AppendOnly ==
  /\ [][~ConstructStep =>
          /\ IsPrefix(result_csv, result_csv')
          /\ csv_exists => csv_exists']_vars
  /\ [][~IsPrefix(result_csv, result_csv') =>
          (ConstructStep /\ overwrite_arg'
           /\ workspace_state' = "Overwritten")]_vars

\* rows were appended behind rows of earlier calls
C14_Witness ==
  /\ HelperAlive
  /\ Len(calls) >= 3
  /\ Len(result_csv) = 4
  /\ \A k \in 1..3 : RowOf(result_csv[k + 1], calls[k])

\* C15 as stated: the ledger survives a restart after a crash; the new
\* orchestrator of the same name finds it with its header and rows, and its
\* first append adds a row behind them.
C15_ResumeKeepsLedger ==
  /\ [][(pc = "crashed" /\ csv_exists /\ pc' = "setup") =>
          (csv_exists' /\ result_csv' = result_csv)]_vars
  /\ [][(ValidateReturns /\ csv_exists) =>
          (IsPrefix(result_csv, result_csv')
           /\ Len(result_csv') = Len(result_csv) + 1)]_vars

\* C15, amended: whether validate writes a header is decided by the
\* existence of result.csv: it writes header and row when the file is
\* missing and appends one row otherwise, so the file always has one header,
\* as its first line.  A run cannot be resumed, though: the orchestrator a
\* restarted process constructs for the same name either exits and leaves the
\* surviving ledger alone (overwrite = false) or deletes it (overwrite =
\* true), and its first append then writes a new header.
C15_HeaderByFileExistence ==
  /\ [][(pc = "validate" /\ result_csv' # result_csv) =>
          /\ csv_exists'
          /\ csv_exists =>
               /\ IsPrefix(result_csv, result_csv')
               /\ Len(result_csv') = Len(result_csv) + 1
               /\ result_csv'[Len(result_csv')].kind = "row"
          /\ ~csv_exists =>
               /\ Len(result_csv') = 2
               /\ result_csv'[1].kind = "header"
               /\ result_csv'[2].kind = "row"]_vars
  /\ [][pc = "crashed" =>
          \/ pc' = "exited" /\ ~overwrite_arg' /\ UNCHANGED fs
          \/ pc' = "setup" /\ ~csv_exists' /\ result_csv' = <<>>]_vars
  /\ [](csv_exists =>
          /\ Len(result_csv) >= 2
          /\ result_csv[1].kind = "header"
          /\ Rows = 2..Len(result_csv))
  /\ [](~csv_exists => result_csv = <<>>)

\* a process restarted after a crash has constructed its orchestrator: the
\* ledger that survived the crash is gone
C15_Witness ==
  /\ pc = "setup"
  /\ resumed
  /\ wiped
  /\ workspace_state = "Overwritten"
  /\ ~csv_exists
  /\ result_csv = <<>>

\* some file of the run directory is deleted by the step
FileDeleted ==
  \/ csv_exists /\ ~csv_exists'
  \/ weights_loss # NoFile /\ weights_loss' = NoFile
  \/ weights_roc # NoFile /\ weights_roc' = NoFile

\* C16: the directory side effects of preparing the workspace (create, wipe
\* or abort) happen once per run, when the orchestrator is constructed and
\* before the first epoch: the constructing step leaves either an existing
\* empty directory with nothing trained or validated yet, or an exited
\* process; no later step of the run creates or wipes the directory, deletes
\* a file or exits, and no second construction happens while the run lasts.
C16_PreparedOnceAtConstruction ==
  /\ [][ConstructStep =>
          \/ /\ pc' = "setup"
             /\ workspace_state' \in {"Fresh", "Overwritten"}
             /\ dir_exists'
             /\ ~csv_exists' /\ weights_loss' = NoFile /\ weights_roc' = NoFile
             /\ i' = 0 /\ model_state' = 0 /\ calls' = <<>> /\ tb' = <<>>
          \/ /\ pc' = "exited"
             /\ workspace_state' = "Blocked"
             /\ UNCHANGED fs]_vars
  /\ [][~ConstructStep =>
          /\ dir_exists /\ dir_exists'
          /\ ~FileDeleted
          /\ pc' # "exited"
          /\ workspace_state' = workspace_state]_vars
  /\ [](InRun =>
          ~ENABLED (\E overwrite \in BOOLEAN, f \in FreqValues :
                      Construct(overwrite, f)))

\* a run of three epochs that validated and saved a checkpoint in each has
\* ended, on the directory its construction created
C16_Witness ==
  /\ pc = "done"
  /\ workspace_state = "Fresh"
  /\ dir_exists
  /\ i = 3
  /\ Len(calls) = 3
  /\ Len(result_csv) = 4
  /\ weights_loss = 3
  /\ weights_roc = 3

\* the 1-based epoch of the k-th validate call of the run, which is the
\* model state (number of epochs trained) it validated
EpochOfCall(k) == result_csv[k + 1].cols[1]

\* the largest and the smallest element of a non-empty set of numbers
SetMax(S) == CHOOSE x \in S : \A y \in S : y <= x
SetMin(S) == CHOOSE x \in S : \A y \in S : x <= y

\* the validate calls whose val_loss is the best loss and whose val_roc is
\* the best score
CallsAtBestLoss == {k \in 1..Len(calls) : calls[k].val_loss = best_val_loss}
CallsAtBestRoc == {k \in 1..Len(calls) : calls[k].val_roc = best_val_roc}

\* C17: between epochs of the training loop, weights_loss.pth exists iff at
\* least one validation has run and holds the model state of the latest
\* validated epoch whose val_loss equals best_val_loss; weights_roc.pth exists
\* iff some validated epoch had val_roc > 0 and holds the model state of the
\* earliest validated epoch that reached best_val_roc.
C17_CheckpointFiles ==
  (pc \in {"setup", "train", "trigger", "validate", "done"}) =>
    /\ (weights_loss # NoFile) <=> (Len(calls) >= 1)
    /\ Len(calls) >= 1 =>
         weights_loss = EpochOfCall(SetMax(CallsAtBestLoss))
    /\ (weights_roc # NoFile) <=> (\E k \in 1..Len(calls) : calls[k].val_roc > 0)
    /\ weights_roc # NoFile =>
         weights_roc = EpochOfCall(SetMin(CallsAtBestRoc))

\* three validated epochs: the best loss was met in the first and again in
\* the second, the best score in the first and again in the second; the two
\* files hold the states of different epochs
C17_Witness ==
  /\ pc = "done"
  /\ Len(calls) = 3
  /\ CallsAtBestLoss = {1, 2}
  /\ CallsAtBestRoc = {1, 2}
  /\ weights_loss = 2
  /\ weights_roc = 1

\* the number of validations of a run of E epochs with frequency f
Validations(E, f) == IF f = NoFreq THEN E ELSE E \div f

\* the step between the epochs of two successive validations
Stride(f) == IF f = NoFreq THEN 1 ELSE f

\* C18: a run of E epochs with frequency f that reaches its end has called
\* validate floor(E / f) times (E times with the frequency unset) and its
\* ledger has that many data rows, the k-th holding epoch k * f (k with the
\* frequency unset): 1-based, strictly increasing.
C18_ValidationSchedule ==
  /\ pc = "done" =>
       /\ Len(calls) = Validations(epochs, freq)
       /\ Cardinality(Rows) = Validations(epochs, freq)
       /\ csv_exists <=> Validations(epochs, freq) > 0
  /\ (HelperAlive /\ csv_exists) =>
       /\ \A k \in Rows : result_csv[k].cols[1] = (k - 1) * Stride(freq)
       /\ \A k \in Rows :
            (k + 1) \in Rows => result_csv[k].cols[1] < result_csv[k + 1].cols[1]

\* three epochs with frequency 2: one validation (floor(3 / 2)), one row
\* with epoch 2
C18_Witness ==
  /\ pc = "done"
  /\ epochs = 3
  /\ freq = 2
  /\ Len(calls) = 1
  /\ Len(result_csv) = 2
  /\ result_csv[2].cols[1] = 2

\* the validate calls in which the loss improved
LossImproved == {k \in 1..Len(decisions) : decisions[k][1]}

\* C19: result["best_val_loss"] equals best_val_loss after every validate
\* call (and before the first); the other fields of result all come from the
\* latest call in which the loss improved (they are None before any call);
\* a call in which the loss does not improve, whether or not the score does,
\* changes no field of result.
C19_ResultFollowsLoss ==
  /\ [](HasHelper =>
          /\ result.best_val_loss = best_val_loss
          /\ result.config = ExperimentName
          /\ LossImproved = {} => result = InitialResult(ExperimentName)
          /\ LossImproved # {} =>
               LET k == SetMax(LossImproved)
                   m == calls[k]
               IN /\ result.best_val_loss = m.val_loss
                  /\ result.val_acc = m.val_acc
                  /\ result.train_loss = m.train_loss
                  /\ result.train_acc = m.train_acc
                  /\ result.val_roc = m.val_roc
                  /\ result.train_roc = m.train_roc
                  /\ result.epoch = EpochOfCall(k) - 1)
  /\ [][(ValidateReturns /\ ~progress_loss') => result' = result]_vars

\* the second call improved only the score: result still describes the first
C19_Witness ==
  /\ pc = "check"
  /\ Len(calls) = 2
  /\ decisions[2] = <<FALSE, TRUE>>
  /\ calls[2].val_roc > calls[1].val_roc
  /\ best_val_roc = calls[2].val_roc
  /\ result.val_roc = calls[1].val_roc
  /\ result.epoch = EpochOfCall(1) - 1
====
